---- MODULE Spec2Model ----
(***************************************************************************)
(* Actor tracking of the event-video dashboard.                            *)
(*                                                                         *)
(*   - buildTracks (src/lib/actor-matching.ts): greedy frame-to-frame      *)
(*     assignment of detections to tracks.  Specification SpecBT runs it   *)
(*     on every input of a bounded family, one loop iteration per step.    *)
(*   - useActorTracking.track / clear (hooks/use-actor-tracking): the      *)
(*     session orchestrator with its localStorage caches.  Specification   *)
(*     Spec runs it against the /api/detect-actors collaborator.           *)
(*                                                                         *)
(* Units.  Timestamps and durations are hundredths of a second (0.5 s is  *)
(* 50).                                                                    *)
(* World positions lie on one meridian; lat is in metres of arc, so that   *)
(* the haversine distance of two positions is |lat2 - lat1| metres.        *)
(* Costs are exact rationals [num, den] (the code uses doubles).           *)
(***************************************************************************)
EXTENDS Integers, Sequences, FiniteSets, TLC

\* ------------------------------------------------------------------------
\* Bounds of the model
\* ------------------------------------------------------------------------
MaxFrames == 3
MaxDets == 2
MaxTotalDets == 4
MaxRuns == 2
MaxClears == 1
MaxDetects == 1
MaxDurationSec == 3
MaxDurationCs == 450
MaxEstimateM == 205
MaxLabelLen == 3
MaxHeadingDeg == 720

\* ------------------------------------------------------------------------
\* Program constants
\* ------------------------------------------------------------------------
MAX_MATCH_DISTANCE_M == 30
\* LABEL_SIMILARITY_WEIGHT = 0.3 = WeightNum / WeightDen
LABEL_SIMILARITY_WEIGHT_NUM == 3
LABEL_SIMILARITY_WEIGHT_DEN == 10
\* TRACK_COLORS.length
TRACK_COLORS_LEN == 10

\* ------------------------------------------------------------------------
\* Generic helpers
\* ------------------------------------------------------------------------
Abs(x) == IF x < 0 THEN -x ELSE x

Range(s) == {s[i] : i \in 1..Len(s)}

RECURSIVE SumSeq(_)
SumSeq(s) == IF s = <<>> THEN 0 ELSE Head(s) + SumSeq(Tail(s))

\* All sequences over S of length 0..n
SeqsUpTo(S, n) == UNION {[1..k -> S] : k \in 0..n}

\* Array.prototype.sort with a comparator (a, b) => key(a) - key(b), which
\* is stable: elements that compare equal keep their original order.  key[i]
\* is the key of s[i] as a fraction [num, den] with den > 0.  The element at
\* index i lands after all elements of smaller key and all elements of equal
\* key that precede it.
KeyLess(k1, k2) == k1.num * k2.den < k2.num * k1.den

StableSort(s, key) ==
    LET n == Len(s)
        rank(i) == Cardinality({j \in 1..n :
                       KeyLess(key[j], key[i])
                       \/ (~KeyLess(key[i], key[j]) /\ j < i)}) + 1
    IN  [p \in 1..n |-> s[CHOOSE i \in 1..n : rank(i) = p]]

IntKey(x) == [num |-> x, den |-> 1]

\* The indices of 1..n that lie in S, ascending
AscendingIn(n, S) == SelectSeq([i \in 1..n |-> i], LAMBDA i : i \in S)

\* ------------------------------------------------------------------------
\* geo-utils.ts
\* ------------------------------------------------------------------------
\* Great-circle distance in metres.  For two points of one meridian
\* (lon1 = lon2) the haversine formula reduces to R * |dLat|, which is
\* |lat2 - lat1| in the model's unit (metres of arc).
haversineDistance(lat1, lon1, lat2, lon2) == Abs(lat2 - lat1)

\* ------------------------------------------------------------------------
\* geo-projection.ts and the projection step of /api/detect-actors
\* ------------------------------------------------------------------------
\* The clamp range of route.ts:243, in metres
CLAMP_MIN_M == 2
CLAMP_MAX_M == 200

MathMin(a, b) == IF a < b THEN a ELSE b

MathMax(a, b) == IF a > b THEN a ELSE b

\* Haversine forward projection.  Along the meridian (bearing 0 or 180) the
\* destination is the start moved by the distance north or south: lon2 = lon1
\* and lat2 = lat1 +/- d, which is lat +/- distanceMeters in metres of arc.
projectPoint(lat, lon, bearingDeg, distanceMeters) ==
    IF bearingDeg = 0
    THEN [lat |-> lat + distanceMeters, lon |-> lon]
    ELSE [lat |-> lat - distanceMeters, lon |-> lon]

\* The % of JavaScript on integers: the remainder of the truncated division,
\* with the sign of the dividend
JsRem(a, n) == IF a >= 0 THEN a % n ELSE 0 - ((0 - a) % n)

\* const absoluteBearing = (cameraBearing + bearingOffset + 360) % 360
absoluteBearing(cameraBearing, bearingOffset) ==
    JsRem(cameraBearing + bearingOffset + 360, 360)

\* projectActorToWorld for a bounding box centred on the image axis
\* (bearingOffset = 0)
projectActorToWorld(distanceMeters, cameraLat, cameraLon, cameraBearing) ==
    LET pos == projectPoint(cameraLat, cameraLon, absoluteBearing(cameraBearing, 0),
                            distanceMeters)
    IN  [lat |-> pos.lat, lon |-> pos.lon, bearing |-> absoluteBearing(cameraBearing, 0)]

\* Variant: the estimate is capped above only
clampDistanceNoFloor(estimate) == MathMin(CLAMP_MAX_M, estimate)

\* const clampedDistance = Math.max(2, Math.min(200, raw.estimatedDistanceMeters))
clampDistance(estimate) == MathMax(CLAMP_MIN_M, MathMin(CLAMP_MAX_M, estimate))

\* The body of rawResult.actors.map(...): the detection as returned, with the
\* clamped distance, the projected position and the bearing
ProjectDetection(raw, cameraLat, cameraLon, cameraBearing) ==
    LET projected == projectActorToWorld(clampDistance(raw.estimatedDistanceMeters),
                                         cameraLat, cameraLon, cameraBearing)
    IN  [type |-> raw.type,
         label |-> raw.label,
         estimatedDistanceMeters |-> clampDistance(raw.estimatedDistanceMeters),
         worldPosition |-> [lat |-> projected.lat, lon |-> projected.lon],
         bearingFromCamera |-> projected.bearing]

\* ------------------------------------------------------------------------
\* actor-matching.ts: labelSimilarity
\* ------------------------------------------------------------------------
IsSpace(c) == c = " "

toLowerCase(s) ==
    [i \in 1..Len(s) |-> IF s[i] = "A" THEN "a" ELSE IF s[i] = "B" THEN "b" ELSE s[i]]

\* String.prototype.split(/\s+/): the pieces between maximal runs of
\* whitespace; a leading or trailing run yields an empty piece, and the
\* empty string yields the single piece "".
RECURSIVE SplitFrom(_, _, _)
SplitFrom(s, i, cur) ==
    IF i > Len(s) THEN <<cur>>
    ELSE IF IsSpace(s[i])
         THEN IF i > 1 /\ IsSpace(s[i - 1])
              THEN SplitFrom(s, i + 1, cur)
              ELSE <<cur>> \o SplitFrom(s, i + 1, <<>>)
         ELSE SplitFrom(s, i + 1, Append(cur, s[i]))

SplitWhitespace(s) == SplitFrom(s, 1, <<>>)

Words(s) == Range(SplitWhitespace(toLowerCase(s)))

\* The body of labelSimilarity on the two word sets: the exact fraction
\* [num, den]
Jaccard(wordsA, wordsB) ==
    LET overlap == Cardinality(wordsA \cap wordsB)
        union == Cardinality(wordsA \cup wordsB)
    IN  IF wordsA = {} /\ wordsB = {} THEN [num |-> 1, den |-> 1]
        ELSE IF union = 0 THEN [num |-> 0, den |-> 1]
        ELSE [num |-> overlap, den |-> union]

labelSimilarity(a, b) == Jaccard(Words(a), Words(b))

\* ------------------------------------------------------------------------
\* actor-matching.ts: buildTracks
\* ------------------------------------------------------------------------
\* frame.actors.map(...): each detection with the observation made of it.
\* src = <<frame index in sorted order, detection index>> and srcType are
\* history fields: they record which detection an observation was made of.
FrameObservations(frame, fi) ==
    [oi \in 1..Len(frame.actors) |->
        [actor |-> frame.actors[oi],
         obs |-> [timestamp |-> frame.timestamp,
                  worldPosition |-> frame.actors[oi].worldPosition,
                  src |-> <<fi, oi>>,
                  srcType |-> frame.actors[oi].type]]]

TrackObsDistance(track, o) ==
    haversineDistance(track.lastObservation.worldPosition.lat,
                      track.lastObservation.worldPosition.lon,
                      o.obs.worldPosition.lat,
                      o.obs.worldPosition.lon)

\* Variant: the type gate is missing
TypeGateOff(track, o) == TRUE

\* Variant: the distance gate is applied to the cost (distance less the label
\* bonus) instead of the distance
DistanceGateOnCost(track, o) ==
    LET sim == labelSimilarity(track.label, o.actor.label)
    IN  TrackObsDistance(track, o) * sim.den * LABEL_SIMILARITY_WEIGHT_DEN
          - sim.num * LABEL_SIMILARITY_WEIGHT_NUM * MAX_MATCH_DISTANCE_M
        <= MAX_MATCH_DISTANCE_M * sim.den * LABEL_SIMILARITY_WEIGHT_DEN

\* Variant: the cost is the distance alone, without the label bonus
MatchCostNoLabel(track, o) == [num |-> TrackObsDistance(track, o), den |-> 1]

\* Variant: a detection exactly MAX_MATCH_DISTANCE_M away is not a candidate
DistanceGateStrict(track, o) == TrackObsDistance(track, o) < MAX_MATCH_DISTANCE_M

\* The two hard gates: same type, and not farther than MAX_MATCH_DISTANCE_M
TypeGate(track, o) == o.actor.type = track.type

DistanceGate(track, o) == ~(TrackObsDistance(track, o) > MAX_MATCH_DISTANCE_M)

\* dist - sim * LABEL_SIMILARITY_WEIGHT * MAX_MATCH_DISTANCE_M as a fraction
CostOf(dist, sim) ==
    [num |-> dist * sim.den * LABEL_SIMILARITY_WEIGHT_DEN
             - sim.num * LABEL_SIMILARITY_WEIGHT_NUM * MAX_MATCH_DISTANCE_M,
     den |-> sim.den * LABEL_SIMILARITY_WEIGHT_DEN]

\* const sim = labelSimilarity(track.label, actor.label); const cost = ...
MatchCost(track, o) ==
    CostOf(TrackObsDistance(track, o), labelSimilarity(track.label, o.actor.label))

\* The nested loops over openTracks and observations: the gated pairs in
\* enumeration order (track index, then detection index), with their cost.
Candidates(open, observations) ==
    LET n == Len(open)
        m == Len(observations)
        pairs == [k \in 1..(n * m) |->
                    [trackIdx |-> ((k - 1) \div m) + 1, obsIdx |-> ((k - 1) % m) + 1]]
        gated == SelectSeq(pairs, LAMBDA c :
                    /\ TypeGate(open[c.trackIdx], observations[c.obsIdx])
                    /\ DistanceGate(open[c.trackIdx], observations[c.obsIdx]))
    IN  [k \in 1..Len(gated) |->
            [trackIdx |-> gated[k].trackIdx,
             obsIdx |-> gated[k].obsIdx,
             cost |-> MatchCost(open[gated[k].trackIdx], observations[gated[k].obsIdx])]]

\* candidates.sort((a, b) => a.cost - b.cost)
SortCandidates(cands) == StableSort(cands, [k \in 1..Len(cands) |-> cands[k].cost])

\* Variant: the loop stops after the first pair it takes
GreedyAssignFirstOnly(cands, matched, usedObs) ==
    IF cands = <<>> THEN {}
    ELSE {<<Head(cands).trackIdx, Head(cands).obsIdx>>}

\* The loop over the sorted candidates: a pair is taken unless its track or
\* its detection is taken already.  Returns the pairs taken.
RECURSIVE GreedyAssign(_, _, _)
GreedyAssign(cands, matched, usedObs) ==
    IF cands = <<>> THEN {}
    ELSE LET c == Head(cands)
         IN  IF c.trackIdx \in matched \/ c.obsIdx \in usedObs
             THEN GreedyAssign(Tail(cands), matched, usedObs)
             ELSE {<<c.trackIdx, c.obsIdx>>}
                  \cup GreedyAssign(Tail(cands), matched \cup {c.trackIdx},
                                    usedObs \cup {c.obsIdx})

\* Tracks of s at the indices of idx (a sequence of indices), in that order
PickTracks(s, idx) == [k \in 1..Len(idx) |-> s[idx[k]]]

Reverse(s) == [i \in 1..Len(s) |-> s[Len(s) + 1 - i]]

\* Variant: unmatched tracks stay open
ClosesTrackNever(ti, matched, usedObs) == FALSE

\* Variant: the new-track loop tests the set of matched track indices
StartsTrackWrongSet(oi, matched, usedObs) == oi \notin matched

\* "if (!matched.has(ti))": the open track at index ti is closed
ClosesTrack(ti, matched, usedObs) == ti \notin matched

\* "if (usedObs.has(oi)) continue": the detection at index oi starts a track
StartsTrack(oi, matched, usedObs) == oi \notin usedObs

\* The part of one loop iteration after the greedy assignment: the matched
\* tracks are extended, the unmatched ones closed, the unmatched detections
\* start tracks.  assigned is the set of pairs <<track index, detection index>>.
ApplyAssignment(st, observations, assigned) ==
    LET matched == {p[1] : p \in assigned}
        usedObs == {p[2] : p \in assigned}
        obsOf(ti) == observations[(CHOOSE p \in assigned : p[1] = ti)[2]].obs
        \* track.observations.push(obs); track.lastObservation = obs
        extended == [ti \in 1..Len(st.open) |->
                       IF ti \in matched
                       THEN [st.open[ti] EXCEPT
                               !.observations = Append(@, obsOf(ti)),
                               !.lastObservation = obsOf(ti)]
                       ELSE st.open[ti]]
        \* close unmatched tracks, from the last index down
        toClose == {ti \in 1..Len(st.open) : ClosesTrack(ti, matched, usedObs)}
        keptIdx == AscendingIn(Len(st.open), (1..Len(st.open)) \ toClose)
        closedIdx == Reverse(AscendingIn(Len(st.open), toClose))
        \* start new tracks for unmatched observations
        newIdx == AscendingIn(Len(observations),
                     {oi \in 1..Len(observations) : StartsTrack(oi, matched, usedObs)})
        started == [k \in 1..Len(newIdx) |->
                      [trackId |-> st.nextId + k - 1,
                       type |-> observations[newIdx[k]].actor.type,
                       label |-> observations[newIdx[k]].actor.label,
                       lastObservation |-> observations[newIdx[k]].obs,
                       observations |-> <<observations[newIdx[k]].obs>>]]
    IN  [open |-> PickTracks(extended, keptIdx) \o started,
         closed |-> st.closed \o PickTracks(extended, closedIdx),
         nextId |-> st.nextId + Len(newIdx),
         assigned |-> assigned]

\* The greedy assignment of a frame's detections to the open tracks
AssignFrame(open, observations) ==
    GreedyAssign(SortCandidates(Candidates(open, observations)), {}, {})

\* One iteration of "for (const frame of sorted)": st carries open, closed
\* and nextId; the value carries them after the frame, and the pairs assigned.
ProcessFrame(st, frame, fi) ==
    ApplyAssignment(st, FrameObservations(frame, fi),
                    AssignFrame(st.open, FrameObservations(frame, fi)))

\* Variant: the frames are processed in the order given
SortFramesNone(frameResults) == frameResults

\* [...frameResults].sort((a, b) => a.timestamp - b.timestamp)
SortFrames(frameResults) ==
    StableSort(frameResults,
               [i \in 1..Len(frameResults) |-> IntKey(frameResults[i].timestamp)])

\* tracks.sort((a, b) => a.firstSeen - b.firstSeen)
SortTracks(tracks) ==
    StableSort(tracks, [i \in 1..Len(tracks) |-> IntKey(tracks[i].firstSeen)])

\* The tail of buildTracks: close what is open, colour by position in the
\* closed list, sort by firstSeen, and build the result.
FinishTracks(st, sorted, eventId) ==
    LET allClosed == st.closed \o st.open
        tracks == [i \in 1..Len(allClosed) |->
                     [trackId |-> allClosed[i].trackId,
                      type |-> allClosed[i].type,
                      label |-> allClosed[i].label,
                      color |-> (i - 1) % TRACK_COLORS_LEN,
                      observations |-> allClosed[i].observations,
                      firstSeen |-> allClosed[i].observations[1].timestamp,
                      lastSeen |-> allClosed[i].observations[
                                      Len(allClosed[i].observations)].timestamp]]
    IN  [tracks |-> SortTracks(tracks),
         keyframeTimestamps |-> [i \in 1..Len(sorted) |-> sorted[i].timestamp],
         frameResults |-> sorted,
         eventId |-> eventId]

EmptyTrackState == [open |-> <<>>, closed |-> <<>>, nextId |-> 1]

\* The loop over the sorted frames, from frame fi on
RECURSIVE RunFrames(_, _, _)
RunFrames(st, sorted, fi) ==
    IF fi > Len(sorted) THEN st
    ELSE RunFrames(ProcessFrame(st, sorted[fi], fi), sorted, fi + 1)

\* buildTracks(frameResults, eventId) as a function of its arguments
buildTracks(frameResults, eventId) ==
    LET sorted == SortFrames(frameResults)
    IN  FinishTracks(RunFrames(EmptyTrackState, sorted, 1), sorted, eventId)

\* ------------------------------------------------------------------------
\* Inputs of buildTracks in specification SpecBT
\* ------------------------------------------------------------------------
Pos(m) == [lat |-> m, lon |-> 0]

Actor(t, l, m) == [type |-> t, label |-> l, worldPosition |-> Pos(m)]

\* A car at 0 m, a car with another label 5 m up the road, a car 35 m up the
\* road (beyond the gate from 0 m, exactly on it from 5 m), and a pedestrian
\* where the first car is.
BTActors ==
    { Actor("car", <<"b">>, 0), Actor("car", <<"a">>, 5),
      Actor("car", <<"a">>, 35), Actor("pedestrian", <<"a">>, 0) }

BTTimestamps == {50, 150, 250}

BTFrames ==
    [timestamp : BTTimestamps, actors : SeqsUpTo(BTActors, MaxDets)]

TotalDets(frames) == SumSeq([i \in 1..Len(frames) |-> Len(frames[i].actors)])

BTInputs == {s \in SeqsUpTo(BTFrames, MaxFrames) : TotalDets(s) <= MaxTotalDets}

\* ------------------------------------------------------------------------
\* use-actor-tracking: constants and computeKeyframes
\* ------------------------------------------------------------------------
\* KEYFRAME_INTERVAL = 1 s and KEYFRAME_START = 0.5 s, in hundredths
KEYFRAME_INTERVAL == 100
KEYFRAME_START == 50

Max2(a, b) == IF a > b THEN a ELSE b

\* Math.round(t * 10) / 10 on hundredths: the nearest tenth, halves up
RoundTenth(t) == ((t + 5) \div 10) * 10

\* Variant: the loop runs up to duration - 0.5 inclusive
RECURSIVE KeyframeLoopInclusive(_, _)
KeyframeLoopInclusive(t, duration) ==
    IF t <= duration - 50
    THEN <<RoundTenth(t)>> \o KeyframeLoopInclusive(t + KEYFRAME_INTERVAL, duration)
    ELSE <<>>

\* for (let t = KEYFRAME_START; t < duration - 0.5; t += KEYFRAME_INTERVAL)
RECURSIVE KeyframeLoop(_, _)
KeyframeLoop(t, duration) ==
    IF t < duration - 50
    THEN <<RoundTenth(t)>> \o KeyframeLoop(t + KEYFRAME_INTERVAL, duration)
    ELSE <<>>

computeKeyframes(duration) ==
    LET timestamps == KeyframeLoop(KEYFRAME_START, duration)
        endFrame == Max2(duration - 100, KEYFRAME_START)
    IN  IF timestamps = <<>> \/ timestamps[Len(timestamps)] < endFrame - 100
        THEN Append(timestamps, RoundTenth(endFrame))
        ELSE timestamps

\* ------------------------------------------------------------------------
\* localStorage and JSON
\* ------------------------------------------------------------------------
\* A stored item is Absent, Corrupt (a string JSON.parse rejects), Unreadable
\* (getItem throws for it), or the text of a value: [json |-> v].  JSON.stringify / JSON.parse of the plain
\* objects of this model (finite numbers, strings, arrays) give v back.
Absent == [absent |-> TRUE]
Corrupt == [corrupt |-> TRUE]
Unreadable == [unreadable |-> TRUE]
Null == [null |-> TRUE]

Stringify(v) == [json |-> v]

GetItemThrows(item) == item = Unreadable

ParseThrows(item) == item = Corrupt

\* "const stored = getItem(key); if (stored) { ... JSON.parse(stored) ... }"
\* inside try/catch gets to a parsed value
Readable(item) == item # Absent /\ ~GetItemThrows(item) /\ ~ParseThrows(item)

Parse(item) == item.json

\* `${DETECTION_CACHE_PREFIX}${eventId}-${t.toFixed(1)}` for the one event of
\* the model: the timestamp to one decimal (the nearest tenth)
FrameCacheKey(t) == RoundTenth(t)

\* localStorage.getItem(frameCacheKey)
GetFrameItem(lsFrames, key) ==
    IF key \in DOMAIN lsFrames THEN lsFrames[key] ELSE Absent

\* Variant: the per-frame cache is never consulted
CachedFrameNever(item) == Null

\* The per-frame cache lookup of track(): the parsed item, or null when the
\* item is missing or does not parse
CachedFrame(item) == IF Readable(item) THEN Parse(item) ELSE Null

\* ------------------------------------------------------------------------
\* track(): the pieces of one run
\* ------------------------------------------------------------------------
\* Variant: the cached session is taken whatever its keyframe count
SessionCacheValidAlways(cached, keyframes) == TRUE

\* Variant: the cached session is taken only if its timestamps are the schedule
SessionCacheValidByTimestamps(cached, keyframes) ==
    cached.keyframeTimestamps = keyframes

\* cached.keyframeTimestamps.length === keyframes.length
SessionCacheValid(cached, keyframes) ==
    Len(cached.keyframeTimestamps) = Len(keyframes)

\* A message text; the numbers interpolated into the texts of the code are
\* left to the fields that carry them
Msg(text) == [message |-> text]

Progress(cur, total, status, message) ==
    [currentFrame |-> cur, totalFrames |-> total, status |-> status,
     message |-> message]

\* Variant: the error progress counts the frame that failed as completed
ErrorProgressNext(frameResults, totalFrames, message) ==
    Progress(Len(frameResults) + 1, totalFrames, "error", message)

\* The progress set in the catch block
ErrorProgress(frameResults, totalFrames, message) ==
    Progress(Len(frameResults), totalFrames, "error", message)

\* Variant: the frame result is put in front of the list
PushFrameResultFront(frameResults, frameResult) ==
    IF frameResult # Null THEN <<frameResult>> \o frameResults ELSE frameResults

\* Variant: a frame result without actors is taken for a missing one
PushFrameResultUnlessEmpty(frameResults, frameResult) ==
    IF frameResult # Null /\ frameResult.actors # <<>>
    THEN Append(frameResults, frameResult)
    ELSE frameResults

\* if (frameResult) frameResults.push(frameResult)
PushFrameResult(frameResults, frameResult) ==
    IF frameResult # Null THEN Append(frameResults, frameResult) ELSE frameResults

\* A run of track(): its position (pc), its locals (keyframes, i, frameResults)
\* and its history: found is the session the run parsed from the session
\* cache (stored is the item it read there), trace the sequence of its effects and of the settlements of its
\* fetches, outcome how it ended; clearedAt is the length of the trace when
\* clear() was first called while the run awaited a response (0: never), and
\* trackedAfterClear tells that track() was called again after that while the
\* run still awaited.
NewRun ==
    [pc |-> "idle", outcome |-> "none", keyframes |-> <<>>, i |-> 0,
     frameResults |-> <<>>, stored |-> Absent, found |-> Null, trace |-> <<>>,
     clearedAt |-> 0, trackedAfterClear |-> FALSE]

\* c is the context of a synchronous stretch of a run: the run and the state
\* it reads and writes.
Emit(c, event) == [c EXCEPT !.run.trace = Append(@, event)]

SetProgress(c, p) == Emit([c EXCEPT !.progress = p], [ev |-> "progress", p |-> p])

\* Variant: a run that stops because of cancellation leaves isTracking set
StopCancelledStillTracking(c) ==
    Emit([c EXCEPT !.progress = Null, !.run.pc = "end", !.run.outcome = "cancelled"],
         [ev |-> "cancelled"])

\* Variant: a cancelled run leaves the progress it reported last
StopCancelledKeepProgress(c) ==
    Emit([c EXCEPT !.isTracking = FALSE,
                   !.run.pc = "end", !.run.outcome = "cancelled"],
         [ev |-> "cancelled"])

\* if (abortRef.current) { setIsTracking(false); setProgress(null); return; }
StopCancelled(c) ==
    Emit([c EXCEPT !.isTracking = FALSE, !.progress = Null,
                   !.run.pc = "end", !.run.outcome = "cancelled"],
         [ev |-> "cancelled"])

\* The catch block and finally
FailRun(c, message) ==
    LET c1 == Emit([c EXCEPT !.error = message], [ev |-> "setError", message |-> message])
        c2 == SetProgress(c1, ErrorProgress(c1.run.frameResults, Len(c1.run.keyframes),
                                            message))
    IN  [c2 EXCEPT !.isTracking = FALSE, !.run.pc = "end", !.run.outcome = "error"]

\* Variant: a throwing write of the session cache is taken for a failure of
\* the run
StoreResultWriteFatal(c, result, sessionWriteOk) ==
    LET total == Len(c.run.keyframes)
        c2 == Emit([c EXCEPT !.trackingResult = result],
                   [ev |-> "setTrackingResult", session |-> result])
        c3 == Emit([c2 EXCEPT !.lsSession = Stringify(result)],
                   [ev |-> "writeSession", session |-> result])
        c4 == SetProgress(c3, Progress(total, total, "done", Msg("Tracked actors")))
    IN  IF sessionWriteOk
        THEN [c4 EXCEPT !.isTracking = FALSE, !.run.pc = "end", !.run.outcome = "done"]
        ELSE FailRun(Emit(c2, [ev |-> "writeSessionThrows"]), Msg("QuotaExceededError"))

\* The end of a run that was not cancelled: the result is exposed, the
\* session cache written (sessionWriteOk: setItem does not throw), done, finally.
StoreResult(c, result, sessionWriteOk) ==
    LET total == Len(c.run.keyframes)
        c2 == Emit([c EXCEPT !.trackingResult = result],
                   [ev |-> "setTrackingResult", session |-> result])
        c3 == IF sessionWriteOk
              THEN Emit([c2 EXCEPT !.lsSession = Stringify(result)],
                        [ev |-> "writeSession", session |-> result])
              ELSE Emit(c2, [ev |-> "writeSessionThrows"])
        c4 == SetProgress(c3, Progress(total, total, "done", Msg("Tracked actors")))
    IN  [c4 EXCEPT !.isTracking = FALSE, !.run.pc = "end", !.run.outcome = "done"]

\* Variant: the matching status is not reported
AfterLoopNoMatching(c, abort, sessionWriteOk) ==
    IF abort THEN StopCancelled(c)
    ELSE StoreResult(c, buildTracks(c.run.frameResults, "ev"), sessionWriteOk)

\* Variant: the flag is not checked before the final result
AfterLoopNoAbortCheck(c, abort, sessionWriteOk) ==
    StoreResult(SetProgress(c, Progress(Len(c.run.keyframes), Len(c.run.keyframes),
                                        "matching",
                                        Msg("Matching actors across frames..."))),
                buildTracks(c.run.frameResults, "ev"), sessionWriteOk)

\* After the loop: the abort check, the matching progress, buildTracks
AfterLoop(c, abort, sessionWriteOk) ==
    IF abort THEN StopCancelled(c)
    ELSE LET total == Len(c.run.keyframes)
             c1 == SetProgress(c, Progress(total, total, "matching",
                                           Msg("Matching actors across frames...")))
         IN  StoreResult(c1, buildTracks(c.run.frameResults, "ev"), sessionWriteOk)

\* The loop from the top of iteration c.run.i (0-based) up to the next fetch
\* or the end of the run: cache hits need no await, so they are part of the
\* same synchronous stretch.
RECURSIVE LoopFrom(_, _, _)
LoopFrom(c, abort, sessionWriteOk) ==
    LET total == Len(c.run.keyframes)
    IN  IF c.run.i < total
        THEN IF abort THEN StopCancelled(c)
             ELSE LET t == c.run.keyframes[c.run.i + 1]
                      c1 == SetProgress(c, Progress(c.run.i + 1, total, "detecting",
                                                   Msg("Analyzing frame")))
                      key == FrameCacheKey(t)
                      item == GetFrameItem(c.lsFrames, key)
                      c2 == Emit(c1, [ev |-> "readFrame", key |-> key, item |-> item])
                      frameResult == CachedFrame(item)
                  IN  IF frameResult # Null
                      THEN LoopFrom([c2 EXCEPT
                                       !.run.frameResults = PushFrameResult(@, frameResult),
                                       !.run.i = @ + 1],
                                    abort, sessionWriteOk)
                      ELSE Emit([c2 EXCEPT !.run.pc = "await"],
                                [ev |-> "fetch", t |-> t])
        ELSE AfterLoop(c, abort, sessionWriteOk)

\* track() from its first line to its first await (or its end)
StartRun(c, duration, sessionWriteOk) ==
    LET keyframes == computeKeyframes(duration)
        stored == c.lsSession
        c0 == [c EXCEPT !.isTracking = TRUE, !.error = Null, !.progress = Null,
                        !.run.keyframes = keyframes, !.run.stored = stored]
        hit == Readable(stored) /\ SessionCacheValid(Parse(stored), keyframes)
        stale == Readable(stored) /\ ~SessionCacheValid(Parse(stored), keyframes)
        c1 == IF Readable(stored)
              THEN [c0 EXCEPT !.run.found = Parse(stored)]
              ELSE c0
    IN  IF hit
        THEN LET cached == Parse(stored)
                 n == Len(cached.keyframeTimestamps)
                 c2 == Emit([c1 EXCEPT !.trackingResult = cached],
                            [ev |-> "setTrackingResult", session |-> cached])
                 c3 == SetProgress(c2, Progress(n, n, "done", Msg("Loaded from cache")))
             IN  [c3 EXCEPT !.isTracking = FALSE, !.run.pc = "end",
                            !.run.outcome = "cached"]
        ELSE LET c2 == IF stale
                       THEN Emit([c1 EXCEPT !.lsSession = Absent],
                                 [ev |-> "removeSession"])
                       ELSE c1
             IN  LoopFrom(c2, FALSE, sessionWriteOk)

\* track() from the resolution of the fetch of iteration c.run.i to its next
\* await (or its end).  resp is the response: [ok |-> TRUE, body |-> frame]
\* or [ok |-> FALSE, message |-> m] (a non-success status or a rejected fetch).
ResumeRun(c, resp, abort, frameWriteOk, sessionWriteOk) ==
    IF ~resp.ok THEN FailRun(Emit(c, [ev |-> "settled", ok |-> FALSE]), resp.message)
    ELSE LET key == FrameCacheKey(c.run.keyframes[c.run.i + 1])
             c0 == Emit(c, [ev |-> "settled", ok |-> TRUE, body |-> resp.body])
             c1 == IF frameWriteOk
                   THEN Emit([c0 EXCEPT !.lsFrames[key] = Stringify(resp.body)],
                             [ev |-> "writeFrame", key |-> key,
                              item |-> Stringify(resp.body)])
                   ELSE Emit(c0, [ev |-> "writeFrameThrows", key |-> key])
             c2 == [c1 EXCEPT !.run.frameResults = PushFrameResult(@, resp.body),
                              !.run.i = @ + 1, !.run.pc = "loop"]
         IN  LoopFrom(c2, abort, sessionWriteOk)

\* ------------------------------------------------------------------------
\* State
\* ------------------------------------------------------------------------
VARIABLES
    btPc,          \* position in buildTracks: "call", "loop", "return"
    btArg,         \* the frameResults argument
    sorted,        \* the sorted copy
    btDone,        \* number of frames of sorted processed so far
    openTracks,
    closedTracks,
    nextId,
    btPrevOpen,    \* history: openTracks before the frame processed last
    btAssigned,    \* history: pairs <<track index, detection index>> assigned in it
    btResult,      \* the returned ActorTrackingResult, or "none"
    \* --- useActorTracking (one hook instance, one event) ---
    trackingResult, \* useState: the session exposed, or Null
    isTracking,     \* useState
    progress,       \* useState: the progress set last, or Null
    error,          \* useState: the error message, or Null
    abortRef,       \* useRef: the cancellation flag
    lastEventIdRef, \* useRef: the event of the last track() call, or Null
    lsSession,      \* localStorage item "actor-tracking-<event>"
    lsFrames,       \* localStorage items "actor-detection-<event>-<t>", by <t>
    runs,           \* the invocations of track(), by order of call
    started,        \* number of track() calls so far
    clears,         \* number of clear() calls so far
    detectPc,       \* useActorDetection.detect: "idle" or "await"
    detectTs,       \* the timestamp of the detect() call in flight
    detects,        \* number of detect() calls so far
    \* --- a single call of a function on its own ---
    fnPc,           \* "idle", "call" (argument chosen), "return"
    fnArg,          \* the argument
    fnResult        \* the value returned

btVars == <<btPc, btArg, sorted, btDone, openTracks, closedTracks, nextId,
            btPrevOpen, btAssigned, btResult>>

hookVars == <<trackingResult, isTracking, progress, error, abortRef, lastEventIdRef,
              lsSession, lsFrames, runs, started, clears, detectPc, detectTs, detects>>

fnVars == <<fnPc, fnArg, fnResult>>

vars == <<btVars, hookVars, fnVars>>

\* ------------------------------------------------------------------------
\* Inputs of the hook in specification Spec
\* ------------------------------------------------------------------------
\* Video durations: whole seconds from 2 s
Durations == {d * 100 : d \in 2..MaxDurationSec}

\* Playback timestamps at which single-frame detection is asked for
DetectTimestamps == {54}

ScheduleTimestamps == UNION {Range(computeKeyframes(d)) : d \in Durations}

FrameKeys == {FrameCacheKey(t) : t \in ScheduleTimestamps \cup DetectTimestamps}

\* What the frames of a response can show
RespActorLists == { <<>>, <<Actor("car", <<"a">>, 5)>> }

\* The successful responses of /api/detect-actors to a request for timestamp
\* t: a result with that timestamp (route.ts:262-269) and some actors
ServerFrames(t) == [timestamp : {t}, actors : RespActorLists]

\* A response: success with a body, a non-success status, a rejected fetch
Responses(t) ==
    {[ok |-> TRUE, body |-> f] : f \in ServerFrames(t)}
    \cup {[ok |-> FALSE, message |-> Msg(m)] :
              m \in {"Detection failed", "Failed to fetch"}}

\* POST /api/detect-actors for timestamp t, after the body was validated.
\* cacheItem is the content of the server's cache file for (event, t to one
\* decimal), hasKey tells that the request or the server environment carries a
\* key, detection is what extraction and the vision model come to.  The cache
\* is consulted before the key.
DetectActorsRoute(cacheItem, hasKey, detection) ==
    IF cacheItem # Absent /\ ~ParseThrows(cacheItem)
    THEN [ok |-> TRUE, body |-> Parse(cacheItem)]
    ELSE IF ~hasKey THEN [ok |-> FALSE, message |-> Msg("NO_API_KEY")]
    ELSE detection

\* The responses to a request for timestamp t when no key is available: what
\* the route answers for every content of its cache file, or a rejected fetch
ResponsesNoKey(t) ==
    {DetectActorsRoute(item, FALSE, Null) :
        item \in {Absent, Corrupt} \cup {Stringify(f) : f \in ServerFrames(t)}}
    \cup {[ok |-> FALSE, message |-> Msg("Failed to fetch")]}

HookInit ==
    /\ trackingResult = Null
    /\ isTracking = FALSE
    /\ progress = Null
    /\ error = Null
    /\ abortRef = FALSE
    /\ lastEventIdRef = Null
    /\ lsSession = Absent
    /\ lsFrames = [k \in FrameKeys |-> Absent]
    /\ runs = [r \in 1..MaxRuns |-> NewRun]
    /\ started = 0
    /\ clears = 0
    /\ detectPc = "idle"
    /\ detectTs = 0
    /\ detects = 0

BTIdle ==
    /\ btPc = "idle"
    /\ btArg = <<>>
    /\ sorted = <<>>
    /\ btDone = 0
    /\ openTracks = <<>>
    /\ closedTracks = <<>>
    /\ nextId = 1
    /\ btPrevOpen = <<>>
    /\ btAssigned = {}
    /\ btResult = "none"

FnIdle ==
    /\ fnPc = "idle"
    /\ fnArg = Null
    /\ fnResult = Null

\* ------------------------------------------------------------------------
\* buildTracks, one step per loop iteration
\* ------------------------------------------------------------------------
InitBT ==
    /\ btPc = "call"
    /\ btArg \in BTInputs
    /\ sorted = <<>>
    /\ btDone = 0
    /\ openTracks = <<>>
    /\ closedTracks = <<>>
    /\ nextId = 1
    /\ btPrevOpen = <<>>
    /\ btAssigned = {}
    /\ btResult = "none"
    /\ HookInit
    /\ FnIdle

\* Entry: the sorted copy is made, the lists start empty
BT_Sort ==
    /\ btPc = "call"
    /\ sorted' = SortFrames(btArg)
    /\ btPc' = "loop"
    /\ UNCHANGED <<btArg, btDone, openTracks, closedTracks, nextId,
                   btPrevOpen, btAssigned, btResult>>
    /\ UNCHANGED <<hookVars, fnVars>>

\* One iteration of the loop over the sorted frames
BT_Frame ==
    /\ btPc = "loop"
    /\ btDone < Len(sorted)
    /\ LET r == ProcessFrame([open |-> openTracks, closed |-> closedTracks,
                              nextId |-> nextId], sorted[btDone + 1], btDone + 1)
       IN  /\ openTracks' = r.open
           /\ closedTracks' = r.closed
           /\ nextId' = r.nextId
           /\ btAssigned' = r.assigned
    /\ btPrevOpen' = openTracks
    /\ btDone' = btDone + 1
    /\ UNCHANGED <<btPc, btArg, sorted, btResult>>
    /\ UNCHANGED <<hookVars, fnVars>>

\* After the loop: close the open tracks, colour, sort, return
BT_Finish ==
    /\ btPc = "loop"
    /\ btDone = Len(sorted)
    /\ btResult' = FinishTracks([open |-> openTracks, closed |-> closedTracks,
                                 nextId |-> nextId], sorted, "ev")
    /\ closedTracks' = closedTracks \o openTracks
    /\ btPc' = "return"
    /\ UNCHANGED <<btArg, sorted, btDone, openTracks, nextId, btPrevOpen, btAssigned>>
    /\ UNCHANGED <<hookVars, fnVars>>

NextBT == BT_Sort \/ BT_Frame \/ BT_Finish

SpecBT == InitBT /\ [][NextBT]_vars

\* ------------------------------------------------------------------------
\* useActorTracking: track() and clear(), one step per synchronous stretch
\* ------------------------------------------------------------------------
Init == HookInit /\ BTIdle /\ FnIdle

\* The state a stretch of run r reads and writes
Context(r) ==
    [run |-> runs[r], trackingResult |-> trackingResult, isTracking |-> isTracking,
     progress |-> progress, error |-> error, lsSession |-> lsSession,
     lsFrames |-> lsFrames]

\* History: clear() is called; the runs awaiting a response note it
NoteClear(rs) ==
    [r \in DOMAIN rs |->
        IF rs[r].pc = "await" /\ rs[r].clearedAt = 0
        THEN [rs[r] EXCEPT !.clearedAt = Len(rs[r].trace)]
        ELSE rs[r]]

\* History: track() is called; the awaiting runs that saw a clear() note it
NoteTrack(rs) ==
    [r \in DOMAIN rs |->
        IF rs[r].pc = "await" /\ rs[r].clearedAt > 0
        THEN [rs[r] EXCEPT !.trackedAfterClear = TRUE]
        ELSE rs[r]]

CommitOver(rs, r, c) ==
    /\ runs' = [rs EXCEPT ![r] = c.run]
    /\ trackingResult' = c.trackingResult
    /\ isTracking' = c.isTracking
    /\ progress' = c.progress
    /\ error' = c.error
    /\ lsSession' = c.lsSession
    /\ lsFrames' = c.lsFrames

Commit(r, c) == CommitOver(runs, r, c)

\* track(params) with videoDuration = duration: up to the first await
TrackCall(duration, sessionWriteOk) ==
    /\ CommitOver(NoteTrack(runs), started + 1,
                  StartRun(Context(started + 1), duration, sessionWriteOk))
    /\ started' = started + 1
    /\ abortRef' = FALSE
    /\ lastEventIdRef' = [eventId |-> "ev"]
    /\ UNCHANGED <<clears, detectPc, detectTs, detects>>
    /\ UNCHANGED <<btVars, fnVars>>

Track ==
    /\ started < MaxRuns
    /\ \E duration \in Durations, sessionWriteOk \in BOOLEAN :
          TrackCall(duration, sessionWriteOk)

\* The fetch of run r settles with resp; the run goes on to its next await
Settle(r, resp, frameWriteOk, sessionWriteOk) ==
    /\ Commit(r, ResumeRun(Context(r), resp, abortRef, frameWriteOk, sessionWriteOk))
    /\ UNCHANGED <<abortRef, lastEventIdRef, started, clears, detectPc, detectTs, detects>>
    /\ UNCHANGED <<btVars, fnVars>>

\* The fetch of a run resolves or rejects
FetchSettles ==
    \E r \in 1..MaxRuns :
        /\ runs[r].pc = "await"
        /\ \E resp \in Responses(runs[r].keyframes[runs[r].i + 1]),
              frameWriteOk \in BOOLEAN, sessionWriteOk \in BOOLEAN :
              Settle(r, resp, frameWriteOk, sessionWriteOk)

\* clear()
Clear ==
    /\ clears < MaxClears
    /\ clears' = clears + 1
    /\ abortRef' = TRUE
    /\ lsSession' = IF lastEventIdRef # Null THEN Absent ELSE lsSession
    /\ trackingResult' = Null
    /\ progress' = Null
    /\ error' = Null
    /\ runs' = NoteClear(runs)
    /\ UNCHANGED <<isTracking, lastEventIdRef, lsFrames, started,
                   detectPc, detectTs, detects>>
    /\ UNCHANGED <<btVars, fnVars>>

\* useActorDetection.detect(params) up to its await: a parseable cached item
\* ends the call, anything else sends the request
DetectCall ==
    /\ detects < MaxDetects
    /\ detectPc = "idle"
    /\ \E ts \in DetectTimestamps :
          /\ detectTs' = ts
          /\ detectPc' = IF CachedFrame(GetFrameItem(lsFrames, FrameCacheKey(ts))) # Null
                         THEN "idle" ELSE "await"
    /\ detects' = detects + 1
    /\ UNCHANGED <<trackingResult, isTracking, progress, error, abortRef,
                   lastEventIdRef, lsSession, lsFrames, runs, started, clears>>
    /\ UNCHANGED <<btVars, fnVars>>

\* The fetch of detect() settles: a successful result is stored under the key
\* of the requested timestamp (unless setItem throws)
DetectSettles ==
    /\ detectPc = "await"
    /\ \E resp \in Responses(detectTs), writeOk \in BOOLEAN :
          lsFrames' = IF resp.ok /\ writeOk
                      THEN [lsFrames EXCEPT ![FrameCacheKey(detectTs)] = Stringify(resp.body)]
                      ELSE lsFrames
    /\ detectPc' = "idle"
    /\ UNCHANGED <<trackingResult, isTracking, progress, error, abortRef,
                   lastEventIdRef, lsSession, runs, started, clears, detectTs, detects>>
    /\ UNCHANGED <<btVars, fnVars>>

Next == Track \/ FetchSettles \/ Clear \/ DetectCall \/ DetectSettles

Spec == Init /\ [][Next]_vars

\* track() and clear() alone, where every detection request eventually
\* resolves or rejects
NextLive == Track \/ FetchSettles \/ Clear

SpecLive == Init /\ [][NextLive]_vars /\ WF_vars(FetchSettles)

\* ------------------------------------------------------------------------
\* track() when no key for the vision model is available: none stored on the
\* client (getAnthropicKey() is null) and none in the server environment.
\* The per-keyframe caches hold whatever earlier detections left there.
\* ------------------------------------------------------------------------
InitNoKey ==
    /\ trackingResult = Null
    /\ isTracking = FALSE
    /\ progress = Null
    /\ error = Null
    /\ abortRef = FALSE
    /\ lastEventIdRef = Null
    /\ lsSession = Absent
    /\ lsFrames \in [FrameKeys -> {Absent} \cup
                        {Stringify(f) : f \in UNION {ServerFrames(t) : t \in FrameKeys}}]
    /\ runs = [r \in 1..MaxRuns |-> NewRun]
    /\ started = 0
    /\ clears = 0
    /\ detectPc = "idle"
    /\ detectTs = 0
    /\ detects = 0
    /\ BTIdle
    /\ FnIdle

FetchSettlesNoKey ==
    \E r \in 1..MaxRuns :
        /\ runs[r].pc = "await"
        /\ \E resp \in ResponsesNoKey(runs[r].keyframes[runs[r].i + 1]),
              frameWriteOk \in BOOLEAN, sessionWriteOk \in BOOLEAN :
              Settle(r, resp, frameWriteOk, sessionWriteOk)

NextNoKey == Track \/ FetchSettlesNoKey

SpecNoKey == InitNoKey /\ [][NextNoKey]_vars

\* ------------------------------------------------------------------------
\* track() and clear() over caches that hold unusable items: items that do
\* not parse, or that cannot be read
\* ------------------------------------------------------------------------
InitCache ==
    /\ trackingResult = Null
    /\ isTracking = FALSE
    /\ progress = Null
    /\ error = Null
    /\ abortRef = FALSE
    /\ lastEventIdRef = Null
    /\ lsSession \in {Absent, Corrupt, Unreadable}
    /\ lsFrames \in {[k \in FrameKeys |-> item] : item \in {Absent, Corrupt, Unreadable}}
    /\ runs = [r \in 1..MaxRuns |-> NewRun]
    /\ started = 0
    /\ clears = 0
    /\ detectPc = "idle"
    /\ detectTs = 0
    /\ detects = 0
    /\ BTIdle
    /\ FnIdle

NextCache == Track \/ FetchSettles \/ Clear

SpecCache == InitCache /\ [][NextCache]_vars

\* ------------------------------------------------------------------------
\* computeKeyframes on every duration up to MaxDurationCs, and the schedule
\* of a run of track() on a video of that duration
\* ------------------------------------------------------------------------
InitKF ==
    /\ HookInit
    /\ BTIdle
    /\ fnPc = "call"
    /\ fnArg \in 0..MaxDurationCs
    /\ fnResult = Null

KF_Compute ==
    /\ fnPc = "call"
    /\ fnResult' = computeKeyframes(fnArg)
    /\ fnPc' = "return"
    /\ UNCHANGED <<fnArg, btVars, hookVars>>

KF_Track ==
    /\ fnPc = "return"
    /\ started = 0
    /\ \E sessionWriteOk \in BOOLEAN : TrackCall(fnArg, sessionWriteOk)

NextKF == KF_Compute \/ KF_Track

SpecKF == InitKF /\ [][NextKF]_vars

\* ------------------------------------------------------------------------
\* The projection step of /api/detect-actors on one detection of the vision
\* model, for every whole estimate from -3 m to MaxEstimateM
\* ------------------------------------------------------------------------
RawDetections ==
    [type : {"car"}, label : {<<"a">>}, estimatedDistanceMeters : (0 - 3)..MaxEstimateM]

InitProj ==
    /\ HookInit
    /\ BTIdle
    /\ fnPc = "call"
    /\ fnArg \in [raw : RawDetections, cameraLat : {1000}, cameraLon : {0},
                   cameraBearing : {0, 180}]
    /\ fnResult = Null

Proj_Detection ==
    /\ fnPc = "call"
    /\ fnResult' = ProjectDetection(fnArg.raw, fnArg.cameraLat, fnArg.cameraLon,
                                    fnArg.cameraBearing)
    /\ fnPc' = "return"
    /\ UNCHANGED <<fnArg, btVars, hookVars>>

NextProj == Proj_Detection

SpecProj == InitProj /\ [][NextProj]_vars

\* ------------------------------------------------------------------------
\* The bearing of projectActorToWorld for camera headings up to
\* MaxHeadingDeg either way and bearing offsets of pixelToBearingOffset
\* ------------------------------------------------------------------------
\* toDeg(Math.atan(...)) lies strictly between -90 and 90
BearingOffsets == {o \in (0 - 89)..89 : o % 15 = 0 \/ o = 89 \/ o = 0 - 89}

InitBearing ==
    /\ HookInit
    /\ BTIdle
    /\ fnPc = "call"
    /\ fnArg \in [cameraBearing : (0 - MaxHeadingDeg)..MaxHeadingDeg,
                   bearingOffset : BearingOffsets]
    /\ fnResult = Null

Bearing_Compute ==
    /\ fnPc = "call"
    /\ fnResult' = absoluteBearing(fnArg.cameraBearing, fnArg.bearingOffset)
    /\ fnPc' = "return"
    /\ UNCHANGED <<fnArg, btVars, hookVars>>

NextBearing == Bearing_Compute

SpecBearing == InitBearing /\ [][NextBearing]_vars

\* ------------------------------------------------------------------------
\* labelSimilarity on every pair of labels up to MaxLabelLen characters
\* ------------------------------------------------------------------------
LabelChars == {"a", "b", "B", " "}

Labels == SeqsUpTo(LabelChars, MaxLabelLen)

InitLS ==
    /\ HookInit
    /\ BTIdle
    /\ fnPc = "call"
    /\ fnArg \in [a : Labels, b : Labels]
    /\ fnResult = Null

LS_Compute ==
    /\ fnPc = "call"
    /\ fnResult' = labelSimilarity(fnArg.a, fnArg.b)
    /\ fnPc' = "return"
    /\ UNCHANGED <<fnArg, btVars, hookVars>>

NextLS == LS_Compute

SpecLS == InitLS /\ [][NextLS]_vars

\* ------------------------------------------------------------------------
\* Properties of buildTracks (specification SpecBT)
\* ------------------------------------------------------------------------
\* Every track that exists so far: the closed ones, then the open ones
LiveTracks == IF btPc = "return" THEN closedTracks ELSE closedTracks \o openTracks

Returned == btPc = "return"

ReturnedTracks == IF Returned THEN btResult.tracks ELSE <<>>

\* The tracks of the loop and the tracks of the returned result
TracksInView == Range(LiveTracks) \cup Range(ReturnedTracks)

\* The detection an observation was made of
SrcActor(obs) == sorted[obs.src[1]].actors[obs.src[2]]

\* C1: every observation of a track comes from a detection of the track's
\* type, the type of the detection that created the track.
C1_TypeGate ==
    \A tr \in TracksInView :
        /\ tr.type = SrcActor(tr.observations[1]).type
        /\ \A j \in 1..Len(tr.observations) :
              /\ tr.observations[j].srcType = tr.type
              /\ SrcActor(tr.observations[j]).type = tr.type

\* C1 witness: a result for an input in which two detections of different
\* types stand at the same coordinates in consecutive frames.
C1_Witness ==
    /\ Returned
    /\ \E i \in 1..(Len(sorted) - 1) :
          \E a \in Range(sorted[i].actors), b \in Range(sorted[i + 1].actors) :
              a.type # b.type /\ a.worldPosition = b.worldPosition

ObsDistance(o1, o2) ==
    haversineDistance(o1.worldPosition.lat, o1.worldPosition.lon,
                      o2.worldPosition.lat, o2.worldPosition.lon)

\* C2: two consecutive observations of a track are at most 30 m apart.
C2_DistanceGate ==
    \A tr \in TracksInView :
        \A j \in 1..(Len(tr.observations) - 1) :
            ObsDistance(tr.observations[j], tr.observations[j + 1]) <= 30

\* C2 witness: a frame is processed in which a detection has the type and
\* the label of an open track and lies more than 30 m from the track's last
\* observation.
C2_Witness ==
    /\ btPc = "loop" /\ btDone >= 1
    /\ \E ti \in 1..Len(btPrevOpen) : \E oi \in 1..Len(sorted[btDone].actors) :
          LET a == sorted[btDone].actors[oi]
          IN  /\ a.type = btPrevOpen[ti].type
              /\ a.label = btPrevOpen[ti].label
              /\ Abs(a.worldPosition.lat
                     - btPrevOpen[ti].lastObservation.worldPosition.lat) > 30

LastObs(tr) == tr.observations[Len(tr.observations)]

\* C3: tracks do not tolerate gaps.  The observations of a track come from
\* consecutive frames; while the loop runs, a track is open exactly if its
\* last observation is from the frame processed last, so a track left
\* unassigned in a frame is closed in that frame and takes no later
\* observation; lastSeen is the timestamp of the frame of its last observation.
C3_TrackClosure ==
    /\ \A tr \in TracksInView :
          \A j \in 1..(Len(tr.observations) - 1) :
              tr.observations[j + 1].src[1] = tr.observations[j].src[1] + 1
    /\ btPc = "loop" =>
          /\ \A i \in 1..Len(openTracks) :
                /\ LastObs(openTracks[i]).src[1] = btDone
                /\ openTracks[i].lastObservation = LastObs(openTracks[i])
          /\ \A i \in 1..Len(closedTracks) :
                LastObs(closedTracks[i]).src[1] < btDone
    /\ \A tr \in Range(ReturnedTracks) :
          tr.lastSeen = sorted[LastObs(tr).src[1]].timestamp

\* C3 witness: a car, then a frame without detections, then a car at the same
\* place, returned as two tracks.
C3_Witness ==
    /\ Returned
    /\ Len(sorted) = 3
    /\ sorted[2].actors = <<>>
    /\ sorted[1].actors = <<Actor("car", <<"b">>, 0)>>
    /\ sorted[3].actors = sorted[1].actors
    /\ Len(btResult.tracks) = 2

\* The frame processed last, as observations
C4Obs == FrameObservations(sorted[btDone], btDone)

\* The gated pairs of the frame processed last
C4Gated ==
    {p \in (1..Len(btPrevOpen)) \X (1..Len(C4Obs)) :
        /\ C4Obs[p[2]].actor.type = btPrevOpen[p[1]].type
        /\ Abs(C4Obs[p[2]].actor.worldPosition.lat
               - btPrevOpen[p[1]].lastObservation.worldPosition.lat) <= 30}

\* cost = distance - Jaccard(labels) * 0.3 * 30, times 10 * |union|
C4CostNum(p) ==
    LET A == Words(btPrevOpen[p[1]].label)
        B == Words(C4Obs[p[2]].actor.label)
        d == Abs(C4Obs[p[2]].actor.worldPosition.lat
                 - btPrevOpen[p[1]].lastObservation.worldPosition.lat)
    IN  10 * d * Cardinality(A \cup B) - 90 * Cardinality(A \cap B)

C4CostDen(p) ==
    10 * Cardinality(Words(btPrevOpen[p[1]].label) \cup Words(C4Obs[p[2]].actor.label))

\* p is visited before q: lower cost, or equal cost and earlier in the
\* enumeration (track index, then detection index)
C4Before(p, q) ==
    LET l == C4CostNum(p) * C4CostDen(q)
        r == C4CostNum(q) * C4CostDen(p)
    IN  \/ l < r
        \/ l = r /\ (p[1] < q[1] \/ (p[1] = q[1] /\ p[2] < q[2]))

\* C4: in the frame processed last, the assigned pairs are gated pairs, a
\* gated pair is assigned exactly if no pair visited before it that shares its
\* track or its detection is assigned, and each assigned detection is the
\* next observation of its track.
C4_GreedyRule ==
    (btDone >= 1) =>
        /\ btAssigned \subseteq C4Gated
        /\ \A p \in C4Gated :
              p \in btAssigned <=>
                 ~\E q \in btAssigned :
                     C4Before(q, p) /\ (q[1] = p[1] \/ q[2] = p[2])
        /\ \A p, q \in btAssigned : (p[1] = q[1] \/ p[2] = q[2]) => p = q
        /\ \A p \in btAssigned :
              \E tr \in Range(LiveTracks) :
                  /\ tr.trackId = btPrevOpen[p[1]].trackId
                  /\ Len(tr.observations) = Len(btPrevOpen[p[1]].observations) + 1
                  /\ LastObs(tr).src = <<btDone, p[2]>>

\* C4 witness: two open tracks compete for two detections, all four pairs
\* pass the gates, and the two low-cost pairs are the ones assigned.
C4_Witness ==
    /\ btPc = "loop" /\ btDone >= 2
    /\ Cardinality(C4Gated) = 4
    /\ btAssigned = {<<1, 2>>, <<2, 1>>}
    /\ C4CostNum(<<1, 2>>) < C4CostNum(<<1, 1>>)

\* The tracks closed in the frame processed last, and the tracks that a
\* detection of that frame opened
ClosedInFrame ==
    {tr \in Range(closedTracks) : LastObs(tr).src[1] = btDone - 1}

OpenedInFrame ==
    {tr \in Range(openTracks) :
        Len(tr.observations) = 1 /\ tr.observations[1].src[1] = btDone}

\* C24: the matching of a frame is maximal.  After a frame is processed, no
\* track closed in that frame and detection that opened a track in that
\* frame have the same type with the detection within 30 m of the track's
\* last observation: whatever was left unassigned had no unassigned gated
\* candidate.
C24_MaximalMatching ==
    (btPc = "loop" /\ btDone >= 1) =>
        \A c \in ClosedInFrame, n \in OpenedInFrame :
            ~(/\ c.type = n.type
              /\ ObsDistance(LastObs(c), n.observations[1]) <= MAX_MATCH_DISTANCE_M)

\* C24 witness: in one frame two open tracks had the same detection as gated
\* candidate; one took it, the other was closed, and a second detection,
\* beyond the gate of the closed track, opened a track.
C24_Witness ==
    /\ btPc = "loop" /\ btDone >= 2
    /\ Len(btPrevOpen) = 2
    /\ Cardinality(btAssigned) = 1
    /\ \E p \in C4Gated : p \notin btAssigned
    /\ ClosedInFrame # {}
    /\ OpenedInFrame # {}

ProcessedDets ==
    UNION {{<<f, o>> : o \in 1..Len(sorted[f].actors)} : f \in 1..btDone}

ObsCount(tracks) == SumSeq([i \in 1..Len(tracks) |-> Len(tracks[i].observations)])

SrcsOf(tracks) ==
    UNION {{tracks[i].observations[j].src : j \in 1..Len(tracks[i].observations)} :
            i \in 1..Len(tracks)}

\* C5: every detection of every processed frame is an observation of exactly
\* one track, with the detection's position and its frame's timestamp; the
\* returned tracks hold as many observations as the input holds detections;
\* a single-frame input yields one single-observation track per detection.
C5_EveryDetectionOnce ==
    /\ SrcsOf(LiveTracks) = ProcessedDets
    /\ ObsCount(LiveTracks) = Cardinality(ProcessedDets)
    /\ \A tr \in TracksInView : \A j \in 1..Len(tr.observations) :
          /\ tr.observations[j].worldPosition = SrcActor(tr.observations[j]).worldPosition
          /\ tr.observations[j].timestamp = sorted[tr.observations[j].src[1]].timestamp
    /\ Returned =>
          /\ ObsCount(btResult.tracks) = TotalDets(btArg)
          /\ SrcsOf(btResult.tracks) = ProcessedDets
          /\ Len(btArg) = 1 =>
                /\ Len(btResult.tracks) = Len(btArg[1].actors)
                /\ \A tr \in Range(btResult.tracks) :
                      Len(tr.observations) = 1 /\ tr.firstSeen = tr.lastSeen

\* C5 witness: a result whose last frame had two detections, one assigned to
\* an open track and one that started a track.
C5_Witness ==
    /\ Returned
    /\ Len(sorted) >= 2
    /\ Len(sorted[btDone].actors) = 2
    /\ Cardinality(btAssigned) = 1

StrictlyIncreasing(tr) ==
    \A j \in 1..(Len(tr.observations) - 1) :
        tr.observations[j].timestamp < tr.observations[j + 1].timestamp

DistinctTimestamps(frames) ==
    \A i, j \in 1..Len(frames) : i # j => frames[i].timestamp # frames[j].timestamp

\* C6 as stated: for every input, the observations of every track have
\* strictly increasing timestamps.
C6_Original == \A tr \in TracksInView : StrictlyIncreasing(tr)

\* C6 amended: for every input whose frames have pairwise distinct
\* timestamps, the observations of every track have strictly increasing
\* timestamps.
C6_Amended ==
    DistinctTimestamps(btArg) => \A tr \in TracksInView : StrictlyIncreasing(tr)

\* C6 witness: a result for unsorted frames of distinct timestamps with a
\* track of two or more observations.
C6_Witness ==
    /\ Returned
    /\ DistinctTimestamps(btArg)
    /\ btArg # sorted
    /\ \E tr \in Range(btResult.tracks) : Len(tr.observations) >= 2

\* Every frame holds exactly one detection (and there is a frame)
OneDetectionEach(frames) ==
    /\ Len(frames) >= 1
    /\ \A i \in 1..Len(frames) : Len(frames[i].actors) = 1

SameTypeThroughout(frames) ==
    \A i, j \in 1..Len(frames) : frames[i].actors[1].type = frames[j].actors[1].type

\* Each detection is within 30 m of the detection in the frame before it
ChainWithinGate(frames) ==
    \A i \in 2..Len(frames) :
        haversineDistance(frames[i - 1].actors[1].worldPosition.lat,
                          frames[i - 1].actors[1].worldPosition.lon,
                          frames[i].actors[1].worldPosition.lat,
                          frames[i].actors[1].worldPosition.lon)
            <= MAX_MATCH_DISTANCE_M

\* The frames are given in ascending order of timestamp
AscendingFrames(frames) ==
    \A i \in 2..Len(frames) : frames[i - 1].timestamp <= frames[i].timestamp

\* The result is one track with one observation per frame of the input, seen
\* from the first frame's timestamp to the last frame's
SingleTrackOver(frames) ==
    /\ Len(btResult.tracks) = 1
    /\ Len(btResult.tracks[1].observations) = Len(frames)
    /\ {o.src[1] : o \in Range(btResult.tracks[1].observations)} = 1..Len(frames)
    /\ btResult.tracks[1].firstSeen = frames[1].timestamp
    /\ btResult.tracks[1].lastSeen = frames[Len(frames)].timestamp

C20_ColorByPosition ==
    Returned =>
        /\ \A i \in 1..(Len(btResult.tracks) - 1) :
              btResult.tracks[i].firstSeen <= btResult.tracks[i + 1].firstSeen
        /\ \A i \in 1..Len(btResult.tracks) :
              btResult.tracks[i].color = (i - 1) % TRACK_COLORS_LEN

\* ------------------------------------------------------------------------
\* Properties of track() (specification Spec)
\* ------------------------------------------------------------------------
Started == 1..started

\* The run found a parseable session in the session cache
FoundSession(run) == run.found # Null

EventsOf(run, kind) == SelectSeq(run.trace, LAMBDA e : e.ev = kind)

HasEvent(run, kind) == \E k \in 1..Len(run.trace) : run.trace[k].ev = kind

\* C7: a run that finds a parseable cached session of another keyframe count
\* does not serve it: the first thing it does is remove the cache entry, then
\* it enters the per-keyframe loop at keyframe 1, and any session it exposes
\* is the one built from the frame results of its own loop.
C7_StaleSessionDiscarded ==
    \A r \in Started :
        LET run == runs[r]
        IN  (FoundSession(run)
             /\ Len(run.found.keyframeTimestamps) # Len(run.keyframes)) =>
               /\ run.outcome # "cached"
               /\ Len(run.trace) >= 3
               /\ run.trace[1] = [ev |-> "removeSession"]
               /\ run.trace[2].ev = "progress"
               /\ run.trace[2].p.status = "detecting"
               /\ run.trace[2].p.currentFrame = 1
               /\ run.trace[2].p.totalFrames = Len(run.keyframes)
               /\ run.trace[3].ev = "readFrame"
               /\ \A k \in 1..Len(run.trace) :
                     run.trace[k].ev = "setTrackingResult" =>
                        /\ run.trace[k].session # run.found
                        /\ Len(run.frameResults) = Len(run.keyframes)
                        /\ run.trace[k].session.frameResults
                              = SortFrames(run.frameResults)

\* C7 witness: a run found a session of another keyframe count and has
\* finished with a session of its own.
C7_Witness ==
    \E r \in Started :
        /\ FoundSession(runs[r])
        /\ Len(runs[r].found.keyframeTimestamps) # Len(runs[r].keyframes)
        /\ runs[r].outcome = "done"

\* C8: a run that finds a parseable cached session of the schedule's keyframe
\* count exposes it with status done and does nothing else: no request, no
\* read or write of a per-keyframe cache entry.
C8_ValidSessionServed ==
    \A r \in Started :
        LET run == runs[r]
        IN  (FoundSession(run)
             /\ Len(run.found.keyframeTimestamps) = Len(run.keyframes)) =>
               /\ run.outcome = "cached"
               /\ run.pc = "end"
               /\ Len(run.trace) = 2
               /\ run.trace[1] = [ev |-> "setTrackingResult", session |-> run.found]
               /\ run.trace[2].ev = "progress"
               /\ run.trace[2].p.status = "done"
               /\ run.trace[2].p.currentFrame = Len(run.keyframes)
               /\ run.trace[2].p.totalFrames = Len(run.keyframes)

\* C8 witness: a run served a cached session whose timestamps are not the
\* schedule's.
C8_Witness ==
    \E r \in Started :
        /\ runs[r].outcome = "cached"
        /\ runs[r].found.keyframeTimestamps # runs[r].keyframes

\* The 1-based position of timestamp t in the schedule of run
KeyframeIndex(run, t) == CHOOSE j \in 1..Len(run.keyframes) : run.keyframes[j] = t

\* C9: when the request for keyframe i fails, the run ends there: what follows
\* is the error message and a progress of status error with currentFrame
\* i - 1 and totalFrames the schedule length; the run sends no later request,
\* sets no trackingResult and writes no session.
C9_FailureAborts ==
    \A r \in Started :
        LET run == runs[r]
        IN  \A k \in 1..Len(run.trace) :
               (run.trace[k].ev = "settled" /\ ~run.trace[k].ok) =>
                  LET i == KeyframeIndex(run, run.trace[k - 1].t)
                  IN  /\ run.trace[k - 1].ev = "fetch"
                      /\ Len(run.trace) = k + 2
                      /\ run.trace[k + 1].ev = "setError"
                      /\ run.trace[k + 2] =
                           [ev |-> "progress",
                            p |-> [currentFrame |-> i - 1,
                                   totalFrames |-> Len(run.keyframes),
                                   status |-> "error",
                                   message |-> run.trace[k + 1].message]]
                      /\ ~HasEvent(run, "setTrackingResult")
                      /\ ~HasEvent(run, "writeSession")
                      /\ run.pc = "end"
                      /\ run.outcome = "error"

\* C9 witness: the request for the second keyframe of a run failed.
C9_Witness ==
    \E r \in Started :
        /\ runs[r].outcome = "error"
        /\ Len(runs[r].frameResults) = 1
        /\ progress # Null
        /\ progress.status = "error"
        /\ progress.currentFrame = 1

\* C10: a session that a computing run exposes or writes to the session cache
\* holds one frame result and one keyframe timestamp per scheduled keyframe,
\* and status done is reported only after such a session was exposed.
C10_SessionComplete ==
    \A r \in Started :
        LET run == runs[r]
        IN  run.outcome # "cached" =>
              /\ \A k \in 1..Len(run.trace) :
                    run.trace[k].ev \in {"setTrackingResult", "writeSession"} =>
                       /\ Len(run.trace[k].session.frameResults) = Len(run.keyframes)
                       /\ Len(run.trace[k].session.keyframeTimestamps) = Len(run.keyframes)
              /\ \A k \in 1..Len(run.trace) :
                    (run.trace[k].ev = "progress" /\ run.trace[k].p.status = "done") =>
                       \E j \in 1..(k - 1) : run.trace[j].ev = "setTrackingResult"

\* C10 witness: a computing run of two keyframes is done and has written its
\* session, and the frame of one of its requests showed no actor.
C10_Witness ==
    \E r \in Started :
        /\ runs[r].outcome = "done"
        /\ Len(runs[r].keyframes) = 2
        /\ HasEvent(runs[r], "writeSession")
        /\ HasEvent(runs[r], "fetch")
        /\ \E j \in 1..Len(runs[r].frameResults) : runs[r].frameResults[j].actors = <<>>

\* The progress events of a run with a status, in order
ProgressOf(run, status) ==
    SelectSeq(run.trace, LAMBDA e : e.ev = "progress" /\ e.p.status = status)

\* Event k of the run is the report of a status
Reports(run, k, status) ==
    run.trace[k].ev = "progress" /\ run.trace[k].p.status = status

\* The number of frame results the run has obtained before event k: cache
\* entries it took and successful responses
ObtainedBefore(run, k) ==
    Cardinality({j \in 1..(k - 1) :
        \/ run.trace[j].ev = "readFrame" /\ Readable(run.trace[j].item)
        \/ run.trace[j].ev = "settled" /\ run.trace[j].ok})

\* The order of the progress events of a run, but for the place of done
ProgressOrder(run) ==
    /\ \A j \in 1..Len(ProgressOf(run, "detecting")) :
          /\ ProgressOf(run, "detecting")[j].p.currentFrame = j
          /\ ProgressOf(run, "detecting")[j].p.totalFrames = Len(run.keyframes)
    /\ \A k \in 1..Len(run.trace) :
          /\ Reports(run, k, "matching") =>
                ObtainedBefore(run, k) = Len(run.keyframes)
          /\ (Reports(run, k, "done") \/ Reports(run, k, "error")) =>
                \A j \in (k + 1)..Len(run.trace) : run.trace[j].ev # "progress"

\* Every done of the run follows a matching of the run
DoneAfterMatching(run) ==
    \A k \in 1..Len(run.trace) :
        Reports(run, k, "done") => \E j \in 1..(k - 1) : Reports(run, j, "matching")

\* C26 as stated: in a run over n keyframes the detecting events carry
\* currentFrame 1, 2, ... in order with totalFrames n; matching is reported
\* only after frame results for all n keyframes are obtained; done only after
\* matching; no progress event follows done or error.
C26_Original ==
    \A r \in Started : ProgressOrder(runs[r]) /\ DoneAfterMatching(runs[r])

\* C26 amended: as C26, but done follows matching only in a run that computes
\* its session; a run served from the session cache reports done alone.
C26_Amended ==
    \A r \in Started :
        /\ ProgressOrder(runs[r])
        /\ IF runs[r].outcome = "cached"
           THEN /\ Len(EventsOf(runs[r], "progress")) = 1
                /\ EventsOf(runs[r], "progress")[1].p.status = "done"
           ELSE DoneAfterMatching(runs[r])

\* C26 witness: a computing run of two keyframes reported detecting 1/2,
\* detecting 2/2, matching, done, in that order.
C26_Witness ==
    \E r \in Started :
        /\ runs[r].outcome = "done"
        /\ [k \in 1..Len(EventsOf(runs[r], "progress")) |->
              <<EventsOf(runs[r], "progress")[k].p.status,
                EventsOf(runs[r], "progress")[k].p.currentFrame,
                EventsOf(runs[r], "progress")[k].p.totalFrames>>]
             = << <<"detecting", 1, 2>>, <<"detecting", 2, 2>>,
                  <<"matching", 2, 2>>, <<"done", 2, 2>> >>

\* C28: when a run ends with status error, the trackingResult the hook
\* exposes is null; the session of an earlier run is not left exposed with the
\* error of the failed run.
C28_ErrorExposesNoSession ==
    [][\A r \in 1..MaxRuns :
          (runs[r].outcome # "error" /\ runs'[r].outcome = "error") =>
              trackingResult' = Null]_vars

\* The run has terminated in one of the four ways
Terminated(run) ==
    /\ run.pc = "end"
    /\ run.outcome \in {"cached", "done", "error", "cancelled"}

\* No run is between its start and its end
NoRunActive == \A r \in 1..MaxRuns : runs[r].pc \in {"idle", "end"}

\* C30: if every detection request eventually resolves or rejects, every
\* invocation of track() eventually terminates, in one of four ways (session
\* from the cache, done, error, stop on cancellation); whenever a run has terminated and no run is active, isTracking is false.
C30_TrackTerminates ==
    /\ \A r \in 1..MaxRuns : (runs[r].pc # "idle") ~> Terminated(runs[r])
    /\ []((started >= 1 /\ NoRunActive) => isTracking = FALSE)

\* C30 witness: two invocations have terminated in different ways, one of them
\* after a request that was in flight, and isTracking is false.
C30_Witness ==
    /\ started = 2
    /\ NoRunActive
    /\ Terminated(runs[1]) /\ Terminated(runs[2])
    /\ runs[1].outcome # runs[2].outcome
    /\ \E r \in Started : HasEvent(runs[r], "settled")
    /\ isTracking = FALSE

\* The timestamps of a sequence of frame results
TimestampsOf(frames) == [j \in 1..Len(frames) |-> frames[j].timestamp]

\* C23: the session of every completed computing run has the run's keyframe
\* schedule as its keyframeTimestamps and as the timestamps of its
\* frameResults, also when detect() stored frame results under the same keys.
C23_SessionOnSchedule ==
    \A r \in Started :
        runs[r].outcome = "done" =>
            \A k \in 1..Len(runs[r].trace) :
                runs[r].trace[k].ev = "setTrackingResult" =>
                    /\ runs[r].trace[k].session.keyframeTimestamps = runs[r].keyframes
                    /\ TimestampsOf(runs[r].trace[k].session.frameResults)
                          = runs[r].keyframes

\* The events of a run after position m of its trace
EventsAfter(run, m) == SubSeq(run.trace, m + 1, Len(run.trace))

\* clear() was called while the run awaited a response, and track() was not
\* called again before the run went on
ClearedInFlight(run) == run.clearedAt > 0 /\ ~run.trackedAfterClear

\* C11: a run that awaited a response when clear() was called (track() not
\* being called again) does nothing until the response arrives, and then
\* stops: after a successful response it stores the frame and ends cancelled,
\* after a failed one it ends in error; it sends no further request, reads no
\* further cache entry, exposes no session, writes no session and reports
\* neither detecting, matching nor done.
C11_ClearStopsRun ==
    \A r \in Started :
        LET run == runs[r]
            after == EventsAfter(run, run.clearedAt)
        IN  ClearedInFlight(run) =>
              /\ run.trace[run.clearedAt].ev = "fetch"
              /\ \A k \in 1..Len(after) :
                    /\ after[k].ev \notin {"fetch", "readFrame", "setTrackingResult",
                                           "writeSession"}
                    /\ after[k].ev = "progress" => after[k].p.status = "error"
              /\ IF after = <<>>
                 THEN run.pc = "await"
                 ELSE /\ after[1].ev = "settled"
                      /\ run.pc = "end"
                      /\ run.outcome = IF after[1].ok THEN "cancelled" ELSE "error"
                      /\ after[1].ok => after[Len(after)].ev = "cancelled"

\* C11 witness: clear() came during the request for the first of two
\* keyframes; the response arrived and the run ended cancelled with one frame.
C11_Witness ==
    \E r \in Started :
        /\ ClearedInFlight(runs[r])
        /\ runs[r].outcome = "cancelled"
        /\ Len(runs[r].keyframes) = 2
        /\ Len(runs[r].frameResults) = 1

\* C22: a run that awaited a response when clear() was called stays cancelled
\* also when track() is called again before the response arrives: it sends no
\* further request, never sets trackingResult and never writes the session
\* cache.
C22_CancelledStaysCancelled ==
    \A r \in Started :
        runs[r].clearedAt > 0 =>
            \A k \in 1..Len(EventsAfter(runs[r], runs[r].clearedAt)) :
                EventsAfter(runs[r], runs[r].clearedAt)[k].ev
                    \notin {"fetch", "setTrackingResult", "writeSession"}

\* The positions in the trace of a run of the events of a kind, ascending
PositionsOf(run, kind) ==
    SelectSeq([k \in 1..Len(run.trace) |-> k], LAMBDA k : run.trace[k].ev = kind)

\* The numbers of a sequence ascend strictly
AscendingSeq(ts) == \A j \in 1..(Len(ts) - 1) : ts[j] < ts[j + 1]

\* C12: a run works on its keyframes one at a time, in schedule order, and the
\* schedule ascends.  The j-th cache lookup is for keyframe j; a request is the
\* last event of an awaiting run or is followed at once by its settlement, so
\* at most one is in flight; the lookup for keyframe j comes only after the
\* frame result of keyframe j - 1 was obtained (a cache hit or a successful
\* response); and frame result j is the one of keyframe j, timestamps
\* ascending.
C12_OneKeyframeAtATime ==
    \A r \in Started :
        LET run == runs[r]
            reads == PositionsOf(run, "readFrame")
            n == Len(run.trace)
        IN  /\ AscendingSeq(run.keyframes)
            /\ Len(reads) <= Len(run.keyframes)
            /\ \A j \in 1..Len(reads) :
                  /\ run.trace[reads[j]].key = FrameCacheKey(run.keyframes[j])
                  /\ j > 1 =>
                        \/ Readable(run.trace[reads[j - 1]].item)
                        \/ \E k \in (reads[j - 1] + 1)..(reads[j] - 1) :
                              run.trace[k].ev = "settled" /\ run.trace[k].ok
            /\ \A k \in 1..n :
                  /\ run.trace[k].ev = "fetch" =>
                        /\ \E j \in 1..Len(reads) :
                              reads[j] = k - 1 /\ run.trace[k].t = run.keyframes[j]
                        /\ IF k = n THEN run.pc = "await"
                                    ELSE run.trace[k + 1].ev = "settled"
                  /\ run.trace[k].ev = "settled" =>
                        k > 1 /\ run.trace[k - 1].ev = "fetch"
            /\ run.pc = "await" => (n > 0 /\ run.trace[n].ev = "fetch")
            /\ Len(run.frameResults) \in {m \in {Len(reads) - 1, Len(reads)} : m >= 0}
            /\ \A j \in 1..Len(run.frameResults) :
                  FrameCacheKey(run.frameResults[j].timestamp)
                     = FrameCacheKey(run.keyframes[j])
            /\ AscendingSeq([j \in 1..Len(run.frameResults) |->
                               run.frameResults[j].timestamp])

\* C12 witness: a run of two keyframes is done; it took the first frame from
\* the cache and requested the second.
C12_Witness ==
    \E r \in Started :
        /\ runs[r].outcome = "done"
        /\ Len(runs[r].frameResults) = 2
        /\ Len(PositionsOf(runs[r], "fetch")) = 1
        /\ runs[r].trace[PositionsOf(runs[r], "fetch")[1]].t = runs[r].keyframes[2]

\* The positions of the trace that belong to the j-th keyframe of a run: from
\* after its cache lookup to before the next lookup
KeyframeSegment(run, j) ==
    LET reads == PositionsOf(run, "readFrame")
    IN  (reads[j] + 1)..(IF j < Len(reads) THEN reads[j + 1] - 1 ELSE Len(run.trace))

\* What track() does for its j-th keyframe, given the item its lookup found.
\* storedAt is the set of events that may follow a successful response.
KeyframeRule(run, j, storedAt) ==
    LET at == PositionsOf(run, "readFrame")[j]
        item == run.trace[at].item
        fetches == {k \in KeyframeSegment(run, j) : run.trace[k].ev = "fetch"}
    IN  /\ run.trace[at].key = FrameCacheKey(run.keyframes[j])
        /\ IF Readable(item)
           THEN /\ fetches = {}
                /\ run.frameResults[j] = Parse(item)
           ELSE /\ fetches = {at + 1}
                /\ run.trace[at + 1].t = run.keyframes[j]
                /\ (Len(run.trace) >= at + 2 /\ run.trace[at + 2].ok) =>
                      /\ run.frameResults[j] = run.trace[at + 2].body
                      /\ Len(run.trace) >= at + 3
                      /\ run.trace[at + 3] \in storedAt

\* The event of the successful write of the response to the request that
\* followed the lookup at position at, under the key of that lookup
FrameWritten(run, at) ==
    [ev |-> "writeFrame", key |-> run.trace[at].key,
     item |-> Stringify(run.trace[at + 2].body)]

FrameWriteThrew(run, at) == [ev |-> "writeFrameThrows", key |-> run.trace[at].key]

\* C13 as stated: for every keyframe a run looks up, a parseable cached item
\* under the key of (event, timestamp to one decimal) means no request and the
\* cached frame accumulated; otherwise exactly one request, whose successful
\* response is accumulated and written to the cache under that key.
C13_Original ==
    \A r \in Started :
        \A j \in 1..Len(PositionsOf(runs[r], "readFrame")) :
            KeyframeRule(runs[r], j,
                {FrameWritten(runs[r], PositionsOf(runs[r], "readFrame")[j])})

\* C13 amended: as C13, but the successful response is written to the cache
\* under that key unless the write throws, in which case nothing is written
\* and the run goes on.
C13_Amended ==
    \A r \in Started :
        \A j \in 1..Len(PositionsOf(runs[r], "readFrame")) :
            KeyframeRule(runs[r], j,
                {FrameWritten(runs[r], PositionsOf(runs[r], "readFrame")[j]),
                 FrameWriteThrew(runs[r], PositionsOf(runs[r], "readFrame")[j])})

\* C13 witness: a run of two keyframes is done; for keyframe 0.5 it took the
\* frame that detect() had cached for timestamp 0.54 (same key), for keyframe
\* 1.5 it sent a request and cached the response.
C13_Witness ==
    \E r \in Started :
        /\ runs[r].outcome = "done"
        /\ Len(runs[r].frameResults) = 2
        /\ runs[r].frameResults[1].timestamp # runs[r].keyframes[1]
        /\ HasEvent(runs[r], "writeFrame")

Generated(d) == {t \in 0..d : t % 100 = 50 /\ t < d - 50}

SetMax(S) == CHOOSE x \in S : \A y \in S : y <= x

\* The multiple of a tenth of a second nearest to t (the upper one of two)
NearestTenth(t) ==
    CHOOSE x \in {10 * k : k \in 0..((t \div 10) + 1)} :
        \A y \in {10 * k : k \in 0..((t \div 10) + 1)} :
            Abs(x - t) < Abs(y - t) \/ (Abs(x - t) = Abs(y - t) /\ x >= y)

\* The extra keyframe is due: nothing was generated, or the last generated
\* timestamp is more than 1 s short of d - 1 s
ExtraDue(d) == Generated(d) = {} \/ SetMax(Generated(d)) < (d - 100) - 100

\* The schedule the claim describes for duration d
ClaimedSchedule(d) ==
    LET base == AscendingIn(d, Generated(d))
    IN  IF ExtraDue(d)
        THEN Append(base, NearestTenth(Max2(d - 100, 50)))
        ELSE base

\* C14: for every duration, computeKeyframes returns 0.5, 1.5, ... below
\* duration - 0.5, followed by max(duration - 1, 0.5) to one decimal exactly
\* when nothing was generated or the last generated timestamp is more than
\* 1 s short of duration - 1; and a run of track() on a video of that
\* duration has this schedule: its length is the totalFrames it reports and
\* its first request is for the first timestamp.
C14_Schedule ==
    /\ fnPc = "return" => fnResult = ClaimedSchedule(fnArg)
    /\ \A r \in Started :
          /\ runs[r].keyframes = ClaimedSchedule(fnArg)
          /\ progress.totalFrames = Len(ClaimedSchedule(fnArg))
          /\ \A k \in 1..Len(runs[r].trace) :
                runs[r].trace[k].ev = "fetch" =>
                   runs[r].trace[k].t = ClaimedSchedule(fnArg)[1]

\* C14 witness: a video of 3.2 s: the schedule 0.5, 1.5, 2.5 was returned and
\* a run of track() has it.
C14_Witness ==
    /\ fnPc = "return"
    /\ fnArg = 320
    /\ Len(fnResult) = 3
    /\ started = 1
    /\ runs[1].keyframes = fnResult

\* ------------------------------------------------------------------------
\* Properties of the projection step (specification SpecProj)
\* ------------------------------------------------------------------------
\* The estimate e brought into [2, 200] as the claim describes it
ClaimedClamp(e) == IF e < 2 THEN 2 ELSE IF e > 200 THEN 200 ELSE e

\* C15: the distance stored with a detection, and the distance from the
\* camera at which the detection is placed, are the vision model's estimate
\* if it lies in [2, 200], 2 if it is below and 200 if it is above.
C15_ClampedDistance ==
    fnPc = "return" =>
        /\ fnResult.estimatedDistanceMeters
              = ClaimedClamp(fnArg.raw.estimatedDistanceMeters)
        /\ haversineDistance(fnArg.cameraLat, fnArg.cameraLon,
                             fnResult.worldPosition.lat, fnResult.worldPosition.lon)
              = ClaimedClamp(fnArg.raw.estimatedDistanceMeters)

\* C15 witness: an estimate of 1 m was stored and projected as 2 m.
C15_Witness ==
    /\ fnPc = "return"
    /\ fnArg.raw.estimatedDistanceMeters = 1
    /\ fnResult.estimatedDistanceMeters = 2
    /\ fnResult.worldPosition.lat = fnArg.cameraLat - 2

\* C29: for every positive duration computeKeyframes returns a non-empty,
\* strictly ascending list of timestamps that are pairwise distinct at 0.1 s
\* resolution (distinct cache keys), each inside the video: 0 <= t <= duration.
C29_KeyframesInsideVideo ==
    (fnPc = "return" /\ fnArg > 0) =>
        /\ fnResult # <<>>
        /\ AscendingSeq(fnResult)
        /\ \A i, j \in 1..Len(fnResult) :
              i # j => FrameCacheKey(fnResult[i]) # FrameCacheKey(fnResult[j])
        /\ \A i \in 1..Len(fnResult) : 0 <= fnResult[i] /\ fnResult[i] <= fnArg

\* ------------------------------------------------------------------------
\* Properties of track() without a key (specification SpecNoKey)
\* ------------------------------------------------------------------------
\* C16: with no key available, a run of track() reports the configuration
\* error at once: it never reports status detecting, never sends a request,
\* and has ended in error when track() returns.
C16_NoKeyNoLoop ==
    \A r \in Started :
        /\ \A k \in 1..Len(runs[r].trace) :
              /\ runs[r].trace[k].ev # "fetch"
              /\ runs[r].trace[k].ev = "progress" =>
                    runs[r].trace[k].p.status # "detecting"
        /\ runs[r].outcome = "error"

\* ------------------------------------------------------------------------
\* Properties of track() over unusable cache items (specification SpecCache)
\* ------------------------------------------------------------------------
\* The item does not get to a parsed value although one is stored: getItem
\* or JSON.parse throws
Unusable(item) == GetItemThrows(item) \/ ParseThrows(item)

\* A cache read, parse or write threw during the run
CacheFailed(run) ==
    \/ Unusable(run.stored)
    \/ \E k \in 1..Len(run.trace) :
          \/ run.trace[k].ev = "readFrame" /\ Unusable(run.trace[k].item)
          \/ run.trace[k].ev \in {"writeFrameThrows", "writeSessionThrows"}

\* Every detection request of the run that has settled has succeeded
RequestsSucceeded(run) ==
    \A k \in 1..Len(run.trace) : run.trace[k].ev = "settled" => run.trace[k].ok

\* C18: cache failures never make a run of track() fail.  A session entry or
\* a keyframe entry whose read or parse throws is taken for a miss (no session
\* is found; the keyframe is requested), a throwing cache write is followed by
\* the rest of the run, and if every request succeeds the run reports no
\* error and, unless it is cancelled, ends done with trackingResult set.
C18_CacheFailuresNonFatal ==
    \A r \in Started :
        LET run == runs[r]
        IN  /\ Unusable(run.stored) => ~FoundSession(run) /\ run.outcome # "cached"
            /\ \A k \in 1..Len(run.trace) :
                  /\ (run.trace[k].ev = "readFrame" /\ Unusable(run.trace[k].item)) =>
                        /\ Len(run.trace) > k
                        /\ run.trace[k + 1].ev = "fetch"
                  /\ run.trace[k].ev = "writeFrameThrows" =>
                        /\ Len(run.trace) > k
                        /\ run.trace[k + 1].ev \in {"progress", "cancelled"}
                  /\ run.trace[k].ev = "writeSessionThrows" =>
                        /\ Len(run.trace) > k
                        /\ run.trace[k + 1].ev = "progress"
                        /\ run.trace[k + 1].p.status = "done"
            /\ (CacheFailed(run) /\ RequestsSucceeded(run)) =>
                  /\ EventsOf(run, "setError") = <<>>
                  /\ run.outcome # "error"
                  /\ \A k \in 1..Len(run.trace) :
                        run.trace[k].ev = "progress" => run.trace[k].p.status # "error"
                  /\ (run.pc = "end" /\ run.outcome # "cancelled") =>
                        /\ run.outcome = "done"
                        /\ Len(EventsOf(run, "setTrackingResult")) = 1
                        /\ run.trace[Len(run.trace)].ev = "progress"
                        /\ run.trace[Len(run.trace)].p.status = "done"

\* C18 witness: a run is done whose session entry did not parse, whose first
\* keyframe entry could not be read, and whose writes of a frame and of the
\* session both threw.
C18_Witness ==
    \E r \in Started :
        /\ runs[r].outcome = "done"
        /\ runs[r].stored = Corrupt
        /\ \E k \in 1..Len(runs[r].trace) :
              /\ runs[r].trace[k].ev = "readFrame"
              /\ runs[r].trace[k].item = Unreadable
        /\ EventsOf(runs[r], "writeFrameThrows") # <<>>
        /\ EventsOf(runs[r], "writeSessionThrows") # <<>>
        /\ trackingResult # Null
        /\ progress # Null
        /\ progress.status = "done"

\* C19: a session entry or keyframe entry that fails to parse during a run is
\* discarded: once the run has ended (done, error or cancelled) the cache does
\* not hold the corrupt item under that key.
C19_CorruptDiscarded ==
    \A r \in Started :
        runs[r].pc = "end" =>
            /\ ParseThrows(runs[r].stored) => ~ParseThrows(lsSession)
            /\ \A k \in 1..Len(runs[r].trace) :
                  (runs[r].trace[k].ev = "readFrame" /\ ParseThrows(runs[r].trace[k].item)) =>
                      ~ParseThrows(lsFrames[runs[r].trace[k].key])

\* ------------------------------------------------------------------------
\* Properties of labelSimilarity (specification SpecLS)
\* ------------------------------------------------------------------------
\* The words of a label: its maximal runs of non-whitespace characters,
\* lower-cased
WordSet(label) ==
    LET l == toLowerCase(label)
    IN  {SubSeq(l, i, j) : <<i, j>> \in
            {p \in (1..Len(l)) \X (1..Len(l)) :
                /\ p[1] <= p[2]
                /\ \A k \in p[1]..p[2] : l[k] # " "
                /\ (p[1] = 1 \/ l[p[1] - 1] = " ")
                /\ (p[2] = Len(l) \/ l[p[2] + 1] = " ")}}

\* |A \cap B| / |A \cup B|, and 1 when neither label has a word
WordOverlap(A, B) ==
    IF A = {} /\ B = {} THEN [num |-> 1, den |-> 1]
    ELSE [num |-> Cardinality(A \cap B), den |-> Cardinality(A \cup B)]

\* C25: labelSimilarity(a, b) is the Jaccard overlap of the word sets of a
\* and b (lower-cased maximal runs of non-whitespace), and 1 when both labels
\* have no word, also for labels with leading, trailing or repeated
\* whitespace.
C25_WordJaccard ==
    fnPc = "return" =>
        fnResult.num * WordOverlap(WordSet(fnArg.a), WordSet(fnArg.b)).den
          = WordOverlap(WordSet(fnArg.a), WordSet(fnArg.b)).num * fnResult.den

\* ------------------------------------------------------------------------
\* Properties of the projected bearing (specification SpecBearing)
\* ------------------------------------------------------------------------
\* C27: for every camera heading and bounding box the returned bearing is
\* the heading plus the pixel bearing offset reduced modulo 360: it lies in
\* [0, 360) and differs from heading + offset by a multiple of 360.
C27_BearingMod360 ==
    fnPc = "return" =>
        /\ 0 <= fnResult /\ fnResult < 360
        /\ (fnResult - (fnArg.cameraBearing + fnArg.bearingOffset)) % 360 = 0

====
